---------------------------- MODULE Spec2Model ----------------------------
(* A model of mainloop.c of the OpenConnect VPN client: the packet queue  *)
(* (queue_packet, queue_new_packet), the session loop                     *)
(* (openconnect_mainloop) and the keepalive/DPD scheduler                 *)
(* (ka_stalled_action, keepalive_action).                                 *)
(*                                                                        *)
(* Three specifications share the variables:                              *)
(*   Spec    the session loop, one action per step of an iteration;       *)
(*   SpecKA  the scheduler's two entry points applied to a Keepalive      *)
(*           State that the clock and the traffic events move;            *)
(*   SpecQ   the packet queue as a linked list in a heap of packets.      *)
EXTENDS Integers, Sequences, FiniteSets, TLC

VARIABLES
    \* ---- struct openconnect_info, as far as openconnect_mainloop uses it
    pc,                 \* position of the caller / of the loop
    quit_reason,        \* vpninfo->quit_reason (NULLSTR = NULL)
    got_cancel_cmd,     \* vpninfo->got_cancel_cmd
    got_pause_cmd,      \* vpninfo->got_pause_cmd
    ret,                \* local int ret
    did_work,           \* local int did_work (0 outside the loop body)
    timeout,            \* local int timeout (0 outside the loop body)
    dtls_ssl,           \* vpninfo->dtls_ssl != NULL
    new_dtls_ssl,       \* vpninfo->new_dtls_ssl != NULL
    ssl_fd,             \* vpninfo->ssl_fd
    new_dtls_started,   \* vpninfo->new_dtls_started
    dtls_attempt_period,\* vpninfo->dtls_attempt_period
    reconnect,          \* <<vpninfo->reconnect_timeout, vpninfo->reconnect_interval>>
    cmd_fd,             \* vpninfo->cmd_fd
    select_rfds,        \* vpninfo->select_rfds
    select_nfds,        \* vpninfo->select_nfds
    retval,             \* the value the last call returned
    \* ---- what an observer of one call sees
    log,                \* the steps of the current iteration, in order
    byeCount,           \* cstp_bye calls in the current call
    byeReason,          \* the reason the last cstp_bye carried
    tunDownCount,       \* shutdown_tun calls in the current call
    lastDriverRet,      \* the last driver result stored in ret in this call
    worked,             \* a driver reported work (> 0) in this iteration
    selectTimeout,      \* the timeout the last select() was given
    \* ---- time(NULL) and struct keepalive_info
    now,
    ka,
    \* ---- one scheduler call: its inputs and outputs
    kaCall,             \* "none", "normal" (keepalive_action), "stalled"
    kaPre,              \* the Keepalive State before the call
    kaRes,              \* the returned KA_* code
    tIn,                \* *timeout before the call
    tOut,               \* *timeout after the call
    probeGap,           \* seconds since the previous DPD probe not followed
                        \* by a receive (-1: there is none)
    lastProbeAt,        \* time of that previous probe (-1: there is none)
    \* ---- the packet queue
    heap,               \* packet id -> [alloc, len, data, next]
    qhead,              \* *q of the queue's owner
    expected,           \* the <<len, data>> given to the calls, in call order
    qop,                \* the last queue operation
    qPrev,              \* the queue (packet ids from the head) before it
    qret                \* the value the last queue_new_packet returned

loopVars == <<pc, quit_reason, got_cancel_cmd, got_pause_cmd, ret, did_work,
              timeout, dtls_ssl, new_dtls_ssl, ssl_fd, new_dtls_started,
              dtls_attempt_period, reconnect, cmd_fd, select_rfds,
              select_nfds, retval, log, byeCount, byeReason, tunDownCount,
              lastDriverRet, worked, selectTimeout>>
clockVars == <<now, ka>>
kaVars == <<kaCall, kaPre, kaRes, tIn, tOut, probeGap, lastProbeAt>>
qVars == <<heap, qhead, expected, qop, qPrev, qret>>
vars == <<loopVars, clockVars, kaVars, qVars>>

-----------------------------------------------------------------------------
(* Program constants.                                                      *)
EPERM == 1
EINTR == 4
EIO == 5
ENOMEM == 12
INT_MAX == 2147483647

NULLSTR == "NULL"
AbortedByCaller == "Aborted by caller"

(* Bounds of the model.                                                    *)
MaxNow == 2         \* the session loop's clock runs 0..MaxNow
MaxTime == 7        \* the scheduler's clock runs 0..MaxTime
MaxInterval == 3    \* rekey, dpd and keepalive intervals are 0..MaxInterval
MaxQueue == 3       \* packets in the heap
MaxLen == 1         \* bytes of a packet

Min(a, b) == IF a < b THEN a ELSE b


-----------------------------------------------------------------------------
(* The keepalive/DPD scheduler: ka_stalled_action and keepalive_action.    *)
(* time(NULL) is the parameter n; *timeout is the parameter t and the      *)
(* field timeout of the result; the Keepalive State is the parameter k     *)
(* and the field ka of the result.                                         *)

KA_NONE == "KA_NONE"
KA_DPD == "KA_DPD"
KA_DPD_DEAD == "KA_DPD_DEAD"
KA_KEEPALIVE == "KA_KEEPALIVE"
KA_REKEY == "KA_REKEY"

\* if (*timeout > (due - now) * 1000) *timeout = (due - now) * 1000;
Tighten_loosens(t, due, n) == (due - n) * 1000
Tighten_never(t, due, n) == t
Tighten(t, due, n) ==
    IF t > (due - n) * 1000 THEN (due - n) * 1000 ELSE t

\* due = ka->last_rekey + ka->rekey; if (now >= due)
RekeyDue_late(k, n) == n > k.last_rekey + k.rekey
RekeyDue(k, n) == n >= k.last_rekey + k.rekey

\* overdue = ka->last_rx + (2 * ka->dpd); if (now > overdue)
DpdOverdue_one_interval(k, n) == n > k.last_rx + k.dpd
DpdOverdue_three_intervals(k, n) == n > k.last_rx + (3 * k.dpd)
DpdOverdue(k, n) == n > k.last_rx + (2 * k.dpd)

\* due = ka->last_rx + ka->dpd;
\* if (ka->last_dpd > ka->last_rx) due = ka->last_dpd + ka->dpd / 2;
ProbeDueAt(k) ==
    IF k.last_dpd > k.last_rx
    THEN k.last_dpd + (k.dpd \div 2)
    ELSE k.last_rx + k.dpd

KaResult(r, t, k) == [res |-> r, timeout |-> t, ka |-> k]

\* ka->last_dpd = now;
StampProbe_forgotten(k, n) == k
StampProbe(k, n) == [k EXCEPT !.last_dpd = n]

ka_stalled_action_dead_at_due(k, t, n) ==
    LET t1 == IF k.rekey # 0
              THEN Tighten(t, k.last_rekey + k.rekey, n)
              ELSE t
    IN  IF k.rekey # 0 /\ RekeyDue(k, n)
        THEN KaResult(KA_REKEY, t, k)
        ELSE IF k.dpd = 0
        THEN KaResult(KA_NONE, t1, k)
        ELSE IF n >= k.last_rx + (2 * k.dpd)
        THEN KaResult(KA_DPD_DEAD, t1, k)
        ELSE KaResult(KA_NONE, Tighten(t1, k.last_rx + (2 * k.dpd), n), k)
ka_stalled_action(k, t, n) ==
    LET t1 == IF k.rekey # 0
              THEN Tighten(t, k.last_rekey + k.rekey, n)
              ELSE t
    IN  IF k.rekey # 0 /\ RekeyDue(k, n)
        THEN KaResult(KA_REKEY, t, k)
        ELSE IF k.dpd = 0
        THEN KaResult(KA_NONE, t1, k)
        ELSE IF DpdOverdue(k, n)
        THEN KaResult(KA_DPD_DEAD, t1, k)
        ELSE KaResult(KA_NONE, Tighten(t1, k.last_rx + (2 * k.dpd), n), k)

keepalive_action(k, t, n) ==
    LET t1 == IF k.rekey # 0
              THEN Tighten(t, k.last_rekey + k.rekey, n)
              ELSE t
        t2 == IF k.dpd # 0 THEN Tighten(t1, ProbeDueAt(k), n) ELSE t1
        t3 == IF k.keepalive # 0
              THEN Tighten(t2, k.last_tx + k.keepalive, n)
              ELSE t2
    IN  IF k.rekey # 0 /\ RekeyDue(k, n)
        THEN KaResult(KA_REKEY, t, k)
        ELSE IF k.dpd # 0 /\ DpdOverdue(k, n)
        THEN KaResult(KA_DPD_DEAD, t1, k)
        ELSE IF k.dpd # 0 /\ n >= ProbeDueAt(k)
        THEN KaResult(KA_DPD, t1, StampProbe(k, n))
        ELSE IF k.keepalive # 0 /\ n >= k.last_tx + k.keepalive
        THEN KaResult(KA_KEEPALIVE, t2, k)
        ELSE KaResult(KA_NONE, t3, k)

-----------------------------------------------------------------------------
(* The parts of the state a specification does not move stay as they are   *)
(* after construction.                                                     *)

\* struct keepalive_info at session start: every last-* timestamp is the
\* session's start; the intervals come from the configuration.
KaAtStart(rekey, dpd, keepalive) ==
    [rekey |-> rekey, dpd |-> dpd, keepalive |-> keepalive,
     last_rekey |-> 0, last_rx |-> 0, last_tx |-> 0, last_dpd |-> 0]

LoopAtRest ==
    /\ pc = "start"
    /\ quit_reason = NULLSTR
    /\ got_cancel_cmd = FALSE
    /\ got_pause_cmd = FALSE
    /\ ret = 0
    /\ did_work = 0
    /\ timeout = 0
    /\ dtls_ssl = FALSE
    /\ new_dtls_ssl = FALSE
    /\ new_dtls_started = 0
    /\ reconnect = <<0, 0>>
    /\ select_rfds = {}
    /\ select_nfds = 0
    /\ retval = 0
    /\ log = <<>>
    /\ byeCount = 0
    /\ byeReason = NULLSTR
    /\ tunDownCount = 0
    /\ lastDriverRet = 0
    /\ worked = FALSE
    /\ selectTimeout = 0

SchedulerAtRest ==
    /\ kaCall = "none"
    /\ kaPre = ka
    /\ kaRes = KA_NONE
    /\ tIn = 0
    /\ tOut = 0
    /\ probeGap = -1
    /\ lastProbeAt = -1

QueueAtRest ==
    /\ heap = <<>>
    /\ qhead = 0
    /\ expected = <<>>
    /\ qop = "none"
    /\ qPrev = <<>>
    /\ qret = 0

-----------------------------------------------------------------------------
(* SpecKA: the scheduler applied to a Keepalive State over time.           *)

Intervals == 0 .. MaxInterval
Timeouts == {0, 2500}

NoCall ==
    /\ kaCall' = "none"
    /\ kaRes' = KA_NONE
    /\ tIn' = 0
    /\ tOut' = 0
    /\ probeGap' = -1

\* time(NULL) moves on by a second.
KATick ==
    /\ now < MaxTime
    /\ now' = now + 1
    /\ kaPre' = ka
    /\ NoCall
    /\ UNCHANGED <<ka, lastProbeAt, loopVars, qVars>>

\* A driver saw a packet from the peer: last_rx = time(NULL). (The
\* timestamps of a feature that is not configured are never read, and
\* are left alone.)
KARx ==
    /\ ka.dpd # 0
    /\ ka.last_rx # now
    /\ ka' = [ka EXCEPT !.last_rx = now]
    /\ kaPre' = ka'
    /\ lastProbeAt' = -1
    /\ NoCall
    /\ UNCHANGED <<now, loopVars, qVars>>

\* A driver sent a packet to the peer: last_tx = time(NULL).
KATx ==
    /\ ka.keepalive # 0
    /\ ka.last_tx # now
    /\ ka' = [ka EXCEPT !.last_tx = now]
    /\ kaPre' = ka'
    /\ NoCall
    /\ UNCHANGED <<now, lastProbeAt, loopVars, qVars>>

\* A driver renegotiated the keys: last_rekey = time(NULL).
KARekeyed ==
    /\ ka.rekey # 0
    /\ ka.last_rekey # now
    /\ ka' = [ka EXCEPT !.last_rekey = now]
    /\ kaPre' = ka'
    /\ NoCall
    /\ UNCHANGED <<now, lastProbeAt, loopVars, qVars>>

Applied(kind, r, t) ==
    /\ kaCall' = kind
    /\ kaPre' = ka
    /\ ka' = r.ka
    /\ kaRes' = r.res
    /\ tIn' = t
    /\ tOut' = r.timeout
    /\ probeGap' = IF r.res = KA_DPD /\ lastProbeAt # -1
                   THEN now - lastProbeAt
                   ELSE -1
    /\ lastProbeAt' = IF r.res = KA_DPD THEN now ELSE lastProbeAt
    /\ UNCHANGED <<now, loopVars, qVars>>

\* A driver calls keepalive_action(ka, &timeout).
KACheck ==
    \E t \in Timeouts : Applied("normal", keepalive_action(ka, t, now), t)

\* A driver calls ka_stalled_action(ka, &timeout).
KAStalledCheck ==
    \E t \in Timeouts : Applied("stalled", ka_stalled_action(ka, t, now), t)

NextKA == KATick \/ KARx \/ KATx \/ KARekeyed \/ KACheck \/ KAStalledCheck


InitKA ==
    /\ LoopAtRest
    /\ ssl_fd = -1
    /\ dtls_attempt_period = 0
    /\ cmd_fd = -1
    /\ now = 0
    /\ \E r \in Intervals, d \in Intervals, k \in Intervals :
           ka = KaAtStart(r, d, k)
    /\ SchedulerAtRest
    /\ QueueAtRest

SpecKA == InitKA /\ [][NextKA]_vars


-----------------------------------------------------------------------------
(* Claims about the scheduler, checked under SpecKA.                       *)

\* C5 (no false DPD-dead): with a DPD interval configured, a check made
\* while now - last_rx <= dpd_interval never returns KA_DPD_DEAD, whichever
\* of the two entry points makes it; and KA_DPD_DEAD is returned only when
\* DPD is configured and now > last_rx + 2 * dpd_interval.
C5_NoFalseDpdDead ==
    kaCall # "none" =>
        /\ (kaPre.dpd >= 1 /\ now - kaPre.last_rx <= kaPre.dpd)
               => kaRes # KA_DPD_DEAD
        /\ kaRes = KA_DPD_DEAD
               => (kaPre.dpd >= 1 /\ now > kaPre.last_rx + 2 * kaPre.dpd)

\* A check made exactly one DPD interval after a receive that was not the
\* session's start: the peer is probed, not declared dead.
C5_Witness ==
    /\ kaCall = "normal"
    /\ kaPre.dpd >= 1
    /\ kaPre.last_rx > 0
    /\ now - kaPre.last_rx = kaPre.dpd
    /\ kaRes = KA_DPD

\* C6 as stated: with a DPD interval configured, for every Keepalive State
\* and every now > last_rx + 2 * dpd_interval, the normal check returns
\* KA_DPD_DEAD.
C6_DpdDeadAlwaysFires ==
    (kaCall = "normal" /\ kaPre.dpd >= 1
        /\ now > kaPre.last_rx + 2 * kaPre.dpd)
    => kaRes = KA_DPD_DEAD

\* C6 as amended: with a DPD interval configured and
\* now > last_rx + 2 * dpd_interval, the normal check returns KA_DPD_DEAD
\* unless a rekey is configured and due (now >= last_rekey +
\* rekey_interval), in which case it returns KA_REKEY.
C6_DpdDeadFiresUnlessRekey ==
    (kaCall = "normal" /\ kaPre.dpd >= 1
        /\ now > kaPre.last_rx + 2 * kaPre.dpd)
    => kaRes = IF kaPre.rekey # 0 /\ now >= kaPre.last_rekey + kaPre.rekey
               THEN KA_REKEY
               ELSE KA_DPD_DEAD

\* The peer is declared dead with a rekey and a keepalive configured, the
\* rekey not yet due, the keepalive due.
C6_Witness ==
    /\ kaCall = "normal"
    /\ kaRes = KA_DPD_DEAD
    /\ kaPre.rekey # 0
    /\ kaPre.keepalive # 0
    /\ now >= kaPre.last_tx + kaPre.keepalive
    /\ now = kaPre.last_rx + 2 * kaPre.dpd + 1

\* C7 as stated (no probe flooding): when two normal checks both return
\* KA_DPD and no receive happened between them, the second is at least
\* half a DPD interval after the first, for every dpd_interval >= 1.
C7_NoProbeFlooding ==
    (kaCall = "normal" /\ kaRes = KA_DPD /\ probeGap # -1)
    => 2 * probeGap >= kaPre.dpd

\* The claim's soft_due, a timestamp in whole seconds: last_rx +
\* dpd_interval, or last_dpd_probe + dpd_interval/2 with a probe
\* outstanding.
C8_SoftDue(k) ==
    IF k.last_dpd > k.last_rx
    THEN k.last_dpd + (k.dpd \div 2)
    ELSE k.last_rx + k.dpd

C8_Applicable(k, n) ==
    <<k.rekey # 0 /\ n >= k.last_rekey + k.rekey,
      k.dpd # 0 /\ n > k.last_rx + 2 * k.dpd,
      k.dpd # 0 /\ n >= C8_SoftDue(k),
      k.keepalive # 0 /\ n >= k.last_tx + k.keepalive,
      TRUE>>

C8_Codes == <<KA_REKEY, KA_DPD_DEAD, KA_DPD, KA_KEEPALIVE, KA_NONE>>

C8_First(k, n) ==
    CHOOSE i \in 1 .. 5 :
        /\ C8_Applicable(k, n)[i]
        /\ \A j \in 1 .. (i - 1) : ~C8_Applicable(k, n)[j]

C9_DeadlineMonotone ==
    (kaCall # "none" /\ tIn >= 0) => (0 <= tOut /\ tOut <= tIn)

\* The degraded-mode check at the very second of the DPD deadline tightens
\* a positive timeout to 0.
C9_Witness ==
    /\ kaCall = "stalled"
    /\ kaRes = KA_NONE
    /\ tIn > 0
    /\ tOut = 0

\* What the other check would have answered to the call just made.
C17_Normal == keepalive_action(kaPre, tIn, now)
C17_Stalled == ka_stalled_action(kaPre, tIn, now)

\* C17 (degraded-mode check): ka_stalled_action returns only KA_REKEY,
\* KA_DPD_DEAD or KA_NONE, leaves the Keepalive State as it was, and for
\* every state and time returns KA_REKEY exactly when keepalive_action
\* would, and KA_DPD_DEAD exactly when keepalive_action would.
C17_StalledAgrees ==
    /\ kaCall = "stalled" =>
           /\ kaRes \in {KA_REKEY, KA_DPD_DEAD, KA_NONE}
           /\ ka = kaPre
           /\ (kaRes = KA_REKEY) <=> (C17_Normal.res = KA_REKEY)
           /\ (kaRes = KA_DPD_DEAD) <=> (C17_Normal.res = KA_DPD_DEAD)
    /\ kaCall = "normal" =>
           /\ (kaRes = KA_REKEY) <=> (C17_Stalled.res = KA_REKEY)
           /\ (kaRes = KA_DPD_DEAD) <=> (C17_Stalled.res = KA_DPD_DEAD)

\* The degraded-mode check answers KA_NONE at the second of the DPD
\* deadline, where the normal check answers with a probe.
C17_Witness ==
    /\ kaCall = "stalled"
    /\ kaRes = KA_NONE
    /\ kaPre.dpd # 0
    /\ now = kaPre.last_rx + 2 * kaPre.dpd
    /\ C17_Normal.res = KA_DPD

C18_FrameState ==
    /\ kaCall = "normal" =>
           ka = IF kaRes = KA_DPD
                THEN [kaPre EXCEPT !.last_dpd = now]
                ELSE kaPre
    /\ kaCall = "stalled" => ka = kaPre
    /\ ka.last_dpd <= now

C18_FrameStep == ka'.last_dpd >= ka.last_dpd

\* C18 (scheduler frame and probe-timestamp monotonicity): keepalive_action
\* changes the Keepalive State only by setting last_dpd to now, and does so
\* exactly when it returns KA_DPD; ka_stalled_action changes nothing; so
\* the intervals, last_rx, last_tx and last_rekey are written by neither,
\* and over checks at non-decreasing times last_dpd never decreases.
C18_Frame == [](C18_FrameState) /\ [][C18_FrameStep]_vars

\* A second probe is stamped later than the first.
C18_Witness ==
    /\ kaCall = "normal"
    /\ kaRes = KA_DPD
    /\ kaPre.last_dpd > 0
    /\ ka.last_dpd > kaPre.last_dpd
    /\ ka.last_rx = kaPre.last_rx

\* The deadlines of the enabled features each check looks at.
C19_Deadlines(kind, k) ==
    (IF k.rekey # 0 THEN {k.last_rekey + k.rekey} ELSE {})
    \cup (IF k.dpd # 0
          THEN IF kind = "normal"
               THEN {C8_SoftDue(k)}
               ELSE {k.last_rx + 2 * k.dpd}
          ELSE {})
    \cup (IF k.keepalive # 0 /\ kind = "normal"
          THEN {k.last_tx + k.keepalive}
          ELSE {})

C19_Nearest(t, D, n) ==
    LET S == {t} \cup {1000 * (d - n) : d \in D}
    IN  CHOOSE m \in S : \A x \in S : m <= x

C19_IsNone == kaCall # "none" /\ kaRes = KA_NONE

\* C19 as claimed: on KA_NONE the timeout becomes the minimum of the input
\* timeout and 1000 * (d - now) over the enabled deadlines d, every such d
\* is strictly later than now, and a positive input timeout is never
\* reduced to 0.
C19_TightenStrictlyFuture ==
    C19_IsNone =>
        /\ tOut = C19_Nearest(tIn, C19_Deadlines(kaCall, kaPre), now)
        /\ \A d \in C19_Deadlines(kaCall, kaPre) : d > now
        /\ tIn > 0 => tOut > 0

\* C19 (tightening to the nearest deadline), amended: on KA_NONE the
\* timeout becomes the minimum of the input timeout and 1000 * (d - now)
\* over the enabled deadlines d; every d of keepalive_action and the rekey
\* deadline of ka_stalled_action is strictly later than now, while the DPD
\* deadline of ka_stalled_action is now or later, so only ka_stalled_action
\* can reduce a positive timeout to 0 on KA_NONE.
C19_TightenToNearest ==
    C19_IsNone =>
        /\ tOut = C19_Nearest(tIn, C19_Deadlines(kaCall, kaPre), now)
        /\ \A d \in C19_Deadlines(kaCall, kaPre) : d >= now
        /\ kaCall = "normal" =>
               /\ \A d \in C19_Deadlines(kaCall, kaPre) : d > now
               /\ tIn > 0 => tOut > 0
        /\ (kaCall = "stalled" /\ kaPre.rekey # 0) =>
               kaPre.last_rekey + kaPre.rekey > now
        /\ (tIn > 0 /\ tOut = 0) =>
               (kaCall = "stalled" /\ kaPre.dpd # 0
                /\ now = kaPre.last_rx + 2 * kaPre.dpd)

\* The degraded-mode check at the second of its DPD deadline, with a rekey
\* deadline still ahead: the nearest deadline is now and the timeout is 0.
C19_Witness ==
    /\ kaCall = "stalled"
    /\ kaRes = KA_NONE
    /\ Cardinality(C19_Deadlines(kaCall, kaPre)) = 2
    /\ now = kaPre.last_rx + 2 * kaPre.dpd
    /\ tIn = 2500
    /\ tOut = 0


-----------------------------------------------------------------------------
(* The packet queue: struct pkt in a heap of MaxQueue packets. A packet    *)
(* pointer is a packet id, NULL is 0. A place that holds a packet pointer  *)
(* (the parameter q) is 0 for the owner's head pointer and id for the      *)
(* next field of packet id.                                                *)

PktIds == 1 .. MaxQueue
Bytes == {0, 1}
Buffers == UNION {[1 .. l -> Bytes] : l \in 0 .. MaxLen}

NoPkt == [alloc |-> FALSE, len |-> 0, data |-> <<>>, next |-> 0]

\* *q for a place q
Deref(h, head, q) == IF q = 0 THEN head ELSE h[q].next

\* while (*q) q = &(*q)->next;   (fuel bounds the walk of a cyclic list)
RECURSIVE WalkToEnd(_, _, _, _)
WalkToEnd(h, head, q, fuel) ==
    IF Deref(h, head, q) = 0 \/ fuel = 0
    THEN q
    ELSE WalkToEnd(h, head, Deref(h, head, q), fuel - 1)

EndOfQueue_no_walk(h, head) == 0
EndOfQueue(h, head) == WalkToEnd(h, head, 0, MaxQueue + 1)

\* new->next = NULL; *q = new;   with q the place the walk ended at
LinkAt_keeps_next(h, q, new) ==
    IF q = 0 THEN h ELSE [h EXCEPT ![q].next = new]
LinkAt(h, q, new) ==
    LET h1 == [h EXCEPT ![new].next = 0]
    IN  IF q = 0 THEN h1 ELSE [h1 EXCEPT ![q].next = new]

\* memcpy(new->data, buf, len)
CopyBytes_whole_buffer(buf, len) == buf
CopyBytes(buf, len) == SubSeq(buf, 1, len)

\* The packets of the queue, from the head.
RECURSIVE Walk(_, _, _)
Walk(h, p, fuel) ==
    IF p = 0 \/ fuel = 0
    THEN <<>>
    ELSE <<p>> \o Walk(h, h[p].next, fuel - 1)

QueueIds(h, head) == Walk(h, head, MaxQueue + 1)

\* void queue_packet(struct pkt **q, struct pkt *new): the caller hands
\* over a packet that is in no queue; its next field holds whatever the
\* caller left there.
QueuePacket ==
    \E new \in PktIds, buf \in Buffers, stale \in 0 .. MaxQueue :
        /\ ~heap[new].alloc
        /\ LET h0 == [heap EXCEPT ![new] =
                          [alloc |-> TRUE, len |-> Len(buf), data |-> buf,
                           next |-> stale]]
               q == EndOfQueue(h0, qhead)
           IN  /\ heap' = LinkAt(h0, q, new)
               /\ qhead' = IF q = 0 THEN new ELSE qhead
        /\ expected' = Append(expected, <<Len(buf), buf>>)
        /\ qop' = "queue_packet"
        /\ qPrev' = QueueIds(heap, qhead)
        /\ UNCHANGED <<qret, loopVars, clockVars, kaVars>>

\* int queue_new_packet(struct pkt **q, void *buf, int len), malloc
\* returning a packet.
QueueNewPacket ==
    \E new \in PktIds, buf \in Buffers, len \in 0 .. MaxLen :
        /\ ~heap[new].alloc
        /\ len <= Len(buf)
        /\ LET h0 == [heap EXCEPT ![new] =
                          [alloc |-> TRUE, len |-> len,
                           data |-> CopyBytes(buf, len), next |-> 0]]
               q == EndOfQueue(h0, qhead)
           IN  /\ heap' = LinkAt(h0, q, new)
               /\ qhead' = IF q = 0 THEN new ELSE qhead
        /\ expected' = Append(expected, <<len, SubSeq(buf, 1, len)>>)
        /\ qop' = "queue_new_packet"
        /\ qPrev' = QueueIds(heap, qhead)
        /\ qret' = 0
        /\ UNCHANGED <<loopVars, clockVars, kaVars>>

\* int queue_new_packet(...), malloc returning NULL.
QueueNewPacketNoMem ==
    /\ qop # "queue_new_packet failed"
    /\ qop' = "queue_new_packet failed"
    /\ qPrev' = QueueIds(heap, qhead)
    /\ qret' = -ENOMEM
    /\ UNCHANGED <<heap, qhead, expected, loopVars, clockVars, kaVars>>

NextQ == QueuePacket \/ QueueNewPacket \/ QueueNewPacketNoMem

\* Any well-formed queue of up to MaxQueue - 1 packets to start from.
InitQ ==
    /\ LoopAtRest
    /\ ssl_fd = -1
    /\ dtls_attempt_period = 0
    /\ cmd_fd = -1
    /\ now = 0
    /\ ka = KaAtStart(0, 0, 0)
    /\ SchedulerAtRest
    /\ \E ids \in {<<>>} \cup {<<a>> : a \in PktIds}
                 \cup {<<a, b>> : a, b \in PktIds} :
        \E bufs \in [1 .. Len(ids) -> Buffers] :
           /\ Len(ids) < MaxQueue
           /\ \A i, j \in 1 .. Len(ids) : i # j => ids[i] # ids[j]
           /\ heap = [p \in PktIds |->
                        IF \E i \in 1 .. Len(ids) : ids[i] = p
                        THEN LET i == CHOOSE i \in 1 .. Len(ids) : ids[i] = p
                             IN  [alloc |-> TRUE, len |-> Len(bufs[i]),
                                  data |-> bufs[i],
                                  next |-> IF i < Len(ids)
                                           THEN ids[i + 1] ELSE 0]
                        ELSE NoPkt]
           /\ qhead = IF ids = <<>> THEN 0 ELSE ids[1]
           /\ expected = [i \in 1 .. Len(ids) |-> <<Len(bufs[i]), bufs[i]>>]
           /\ qPrev = ids
    /\ qop = "none"
    /\ qret = 0

SpecQ == InitQ /\ [][NextQ]_vars

\* C10 (FIFO order): from any starting queue, after any sequence of
\* queue_packet and successful queue_new_packet calls with distinct
\* packets, walking the queue from its head yields the packets that were
\* there followed by the new ones in call order, each with the length and
\* the bytes it was given; each such call lengthens the queue by exactly
\* one and leaves the earlier packets and their order as they were; the
\* last packet's next link is NULL.
C10_FifoOrder ==
    LET ids == QueueIds(heap, qhead)
    IN  /\ Len(ids) = Len(expected)
        /\ \A i \in 1 .. Len(ids) :
               /\ heap[ids[i]].alloc
               /\ <<heap[ids[i]].len, heap[ids[i]].data>> = expected[i]
               /\ Len(heap[ids[i]].data) = heap[ids[i]].len
        /\ \A i, j \in 1 .. Len(ids) : i # j => ids[i] # ids[j]
        /\ ids # <<>> => heap[ids[Len(ids)]].next = 0
        /\ qop \in {"queue_packet", "queue_new_packet"} =>
               /\ Len(ids) = Len(qPrev) + 1
               /\ SubSeq(ids, 1, Len(qPrev)) = qPrev

\* A queue_new_packet that copied a proper prefix of the caller's buffer
\* onto the tail of a queue that already held two packets.
C10_Witness ==
    /\ qop = "queue_new_packet"
    /\ Len(QueueIds(heap, qhead)) = 3
    /\ Len(qPrev) = 2
    /\ expected[3] = <<1, <<1>>>>
    /\ expected[1] # expected[2]


-----------------------------------------------------------------------------
(* Spec: openconnect_mainloop. pc is "start" before the first call,        *)
(* "paused" after a return of 0 and "stopped" after a negative return;     *)
(* inside a call it names the statement about to run.                      *)

\* What the per-cycle drivers (dtls_mainloop, cstp_mainloop, tun_mainloop)
\* can hand back: a work count or a negative error, possibly a terminal
\* cause, possibly a tighter timeout.
DriverRets == {-EPERM, 0, 1}
DriverReasons == {"remote-terminated"}
DriverTimeouts == {1000, INT_MAX}
DriverOutcomes ==
    [r : DriverRets, reason : {NULLSTR} \cup DriverReasons,
     t : DriverTimeouts]

ReconnectArgs == {<<300, 10>>}
CmdFds == {-1, 5}
SslFds == {-1, 3}

Logged(step) == log' = Append(log, step)
InLog(step) == \E i \in 1 .. Len(log) : log[i] = step

\* A driver may set vpninfo->quit_reason and may tighten *timeout.
QuitAfter(o) == IF o.reason # NULLSTR THEN o.reason ELSE quit_reason
TimeoutAfter(o) == Min(timeout, o.t)

\* did_work and timeout are locals of the loop body: past a break, a
\* continue, a return or the end of the body they no longer exist.
InBody(nextpc, v) == IF nextpc \in {"bye", "while", "paused"} THEN 0 ELSE v

\* if (vpninfo->quit_reason) break;  after each driver.
BreakIfQuit_never(q, nextpc) == nextpc
BreakIfQuit(q, nextpc) == IF q # NULLSTR THEN "bye" ELSE nextpc

\* Whether a driver has handed back a positive work count so far in this
\* iteration (an observation of the values added to did_work).
WorkedAfter(nextpc, o) == InBody(nextpc, 1) = 1 /\ (worked \/ o.r > 0)

\* return ret < 0 ? ret : -EIO;
ReturnCode_returns_ret(r) == r
ReturnCode(r) == IF r < 0 THEN r ELSE -EIO

\* The condition of the new DTLS attempt.
AttemptWarranted_no_backoff ==
    /\ dtls_attempt_period # 0
    /\ ~dtls_ssl
    /\ ~new_dtls_ssl
    /\ ssl_fd # -1
AttemptWarranted ==
    /\ dtls_attempt_period # 0
    /\ ~dtls_ssl
    /\ ~new_dtls_ssl
    /\ new_dtls_started + dtls_attempt_period < now
    /\ ssl_fd # -1

\* The caller calls openconnect_mainloop(vpninfo, reconnect_timeout,
\* reconnect_interval): everything before the while loop.
Call ==
    /\ pc \in {"start", "paused", "stopped"}
    /\ \E args \in ReconnectArgs : reconnect' = args
    /\ ret' = 0
    /\ select_rfds' = IF cmd_fd # -1
                      THEN select_rfds \cup {cmd_fd}
                      ELSE select_rfds
    /\ select_nfds' = IF cmd_fd # -1 /\ cmd_fd >= select_nfds
                      THEN cmd_fd + 1
                      ELSE select_nfds
    /\ log' = <<>>
    /\ byeCount' = 0
    /\ byeReason' = NULLSTR
    /\ tunDownCount' = 0
    /\ lastDriverRet' = 0
    /\ worked' = FALSE
    /\ selectTimeout' = 0
    /\ pc' = "while"
    /\ UNCHANGED <<quit_reason, got_cancel_cmd, got_pause_cmd, did_work,
                   timeout, dtls_ssl, new_dtls_ssl, ssl_fd, new_dtls_started,
                   dtls_attempt_period, cmd_fd, retval,
                   clockVars, kaVars, qVars>>

\* while (!vpninfo->quit_reason) { int did_work = 0; int timeout = INT_MAX;
LoopTest_enters_anyway ==
    /\ pc = "while"
    /\ did_work' = 0
    /\ timeout' = INT_MAX
    /\ log' = <<>>
    /\ worked' = FALSE
    /\ pc' = "handshake"
    /\ UNCHANGED <<quit_reason, got_cancel_cmd, got_pause_cmd, ret,
                   dtls_ssl, new_dtls_ssl, ssl_fd, new_dtls_started,
                   dtls_attempt_period, reconnect, cmd_fd, select_rfds,
                   select_nfds, retval, byeCount, byeReason, tunDownCount,
                   lastDriverRet, selectTimeout, clockVars, kaVars, qVars>>
LoopTest ==
    /\ pc = "while"
    /\ IF quit_reason # NULLSTR
       THEN /\ pc' = "bye"
            /\ UNCHANGED <<did_work, timeout, log, worked>>
       ELSE /\ did_work' = 0
            /\ timeout' = INT_MAX
            /\ log' = <<>>
            /\ worked' = FALSE
            /\ pc' = "handshake"
    /\ UNCHANGED <<quit_reason, got_cancel_cmd, got_pause_cmd, ret,
                   dtls_ssl, new_dtls_ssl, ssl_fd, new_dtls_started,
                   dtls_attempt_period, reconnect, cmd_fd, select_rfds,
                   select_nfds, retval, byeCount, byeReason, tunDownCount,
                   lastDriverRet, worked, selectTimeout, clockVars, kaVars, qVars>>

\* if (vpninfo->new_dtls_ssl) dtls_try_handshake(vpninfo);
\* The handshake completes, stays in flight, or fails.
TryHandshake ==
    /\ pc = "handshake"
    /\ IF new_dtls_ssl
       THEN /\ \E outcome \in {"done", "again", "failed"} :
                  /\ dtls_ssl' = (outcome = "done")
                  /\ new_dtls_ssl' = (outcome = "again")
            /\ Logged("dtls_try_handshake")
       ELSE UNCHANGED <<dtls_ssl, new_dtls_ssl, log>>
    /\ pc' = "attempt"
    /\ UNCHANGED <<quit_reason, got_cancel_cmd, got_pause_cmd, ret,
                   did_work, timeout, ssl_fd, new_dtls_started,
                   dtls_attempt_period, reconnect, cmd_fd, select_rfds,
                   select_nfds, retval, byeCount, byeReason, tunDownCount,
                   lastDriverRet, worked, selectTimeout, clockVars, kaVars, qVars>>

\* if (vpninfo->dtls_attempt_period && !vpninfo->dtls_ssl && ...)
\*         connect_dtls_socket(vpninfo);
\* The attempt starts a handshake or fails at once; either way it stamps
\* new_dtls_started.
Attempt ==
    /\ pc = "attempt"
    /\ IF AttemptWarranted
       THEN /\ new_dtls_ssl' \in BOOLEAN
            /\ new_dtls_started' = now
            /\ Logged("connect_dtls_socket")
       ELSE UNCHANGED <<new_dtls_ssl, new_dtls_started, log>>
    /\ pc' = "dtls"
    /\ UNCHANGED <<quit_reason, got_cancel_cmd, got_pause_cmd, ret,
                   did_work, timeout, dtls_ssl, ssl_fd,
                   dtls_attempt_period, reconnect, cmd_fd, select_rfds,
                   select_nfds, retval, byeCount, byeReason, tunDownCount,
                   lastDriverRet, worked, selectTimeout, clockVars, kaVars, qVars>>

\* if (vpninfo->dtls_ssl) { ret = dtls_mainloop(vpninfo, &timeout);
\*         did_work += ret; }
\* if (vpninfo->quit_reason) break;
DtlsDriver ==
    /\ pc = "dtls"
    /\ IF dtls_ssl
       THEN \E o \in DriverOutcomes, closed \in BOOLEAN :
               /\ ret' = o.r
               /\ lastDriverRet' = o.r
               /\ quit_reason' = QuitAfter(o)
               /\ pc' = BreakIfQuit(quit_reason', "cstp")
               /\ did_work' = InBody(pc', did_work + o.r)
               /\ worked' = WorkedAfter(pc', o)
               /\ timeout' = InBody(pc', TimeoutAfter(o))
               /\ dtls_ssl' = ~closed
               /\ Logged("dtls_mainloop")
       ELSE /\ pc' = "cstp"
            /\ UNCHANGED <<ret, lastDriverRet, worked, did_work, timeout,
                           quit_reason, dtls_ssl, log>>
    /\ UNCHANGED <<got_cancel_cmd, got_pause_cmd, new_dtls_ssl, ssl_fd,
                   new_dtls_started, dtls_attempt_period, reconnect, cmd_fd,
                   select_rfds, select_nfds, retval, byeCount, byeReason,
                   tunDownCount, selectTimeout, clockVars, kaVars, qVars>>

\* What cstp_mainloop may do to the Keepalive State: stamp a receive and a
\* send, or a rekey.
KaAfterTraffic ==
    {ka, [ka EXCEPT !.last_rx = now, !.last_tx = now],
         [ka EXCEPT !.last_rekey = now]}

\* ret = cstp_mainloop(vpninfo, &timeout);
\* if (vpninfo->quit_reason) break;
\* did_work += ret;
CstpDriver ==
    /\ pc = "cstp"
    /\ \E o \in DriverOutcomes, fd \in SslFds, k \in KaAfterTraffic :
           /\ ret' = o.r
           /\ lastDriverRet' = o.r
           /\ quit_reason' = QuitAfter(o)
           /\ pc' = BreakIfQuit(quit_reason', "tun")
           /\ timeout' = InBody(pc', TimeoutAfter(o))
           /\ ssl_fd' = fd
           /\ ka' = k
           /\ did_work' = InBody(pc', did_work + o.r)
           /\ worked' = WorkedAfter(pc', o)
    /\ Logged("cstp_mainloop")
    /\ UNCHANGED <<got_cancel_cmd, got_pause_cmd, dtls_ssl, new_dtls_ssl,
                   new_dtls_started, dtls_attempt_period, reconnect, cmd_fd,
                   select_rfds, select_nfds, retval, byeCount, byeReason,
                   tunDownCount, selectTimeout, now, kaVars, qVars>>

\* did_work += tun_mainloop(vpninfo, &timeout);
\* if (vpninfo->quit_reason) break;
TunDriver ==
    /\ pc = "tun"
    /\ \E o \in DriverOutcomes :
           /\ quit_reason' = QuitAfter(o)
           /\ pc' = BreakIfQuit(quit_reason', "poll")
           /\ did_work' = InBody(pc', did_work + o.r)
           /\ worked' = WorkedAfter(pc', o)
           /\ timeout' = InBody(pc', TimeoutAfter(o))
    /\ Logged("tun_mainloop")
    /\ UNCHANGED <<got_cancel_cmd, got_pause_cmd, ret, dtls_ssl,
                   new_dtls_ssl, ssl_fd, new_dtls_started,
                   dtls_attempt_period, reconnect, cmd_fd, select_rfds,
                   select_nfds, retval, byeCount, byeReason, tunDownCount,
                   lastDriverRet, selectTimeout, clockVars, kaVars, qVars>>

\* poll_cmd_fd(vpninfo, 0): raises the flags of the commands it reads.
PollCmdFd ==
    /\ pc = "poll"
    /\ \E c \in BOOLEAN, p \in BOOLEAN :
           /\ got_cancel_cmd' = (got_cancel_cmd \/ c)
           /\ got_pause_cmd' = (got_pause_cmd \/ p)
    /\ Logged("poll_cmd_fd")
    /\ pc' = "cmd"
    /\ UNCHANGED <<quit_reason, ret, did_work, timeout, dtls_ssl,
                   new_dtls_ssl, ssl_fd, new_dtls_started,
                   dtls_attempt_period, reconnect, cmd_fd, select_rfds,
                   select_nfds, retval, byeCount, byeReason, tunDownCount,
                   lastDriverRet, worked, selectTimeout, clockVars, kaVars, qVars>>

\* if (vpninfo->got_cancel_cmd) { quit_reason = "Aborted by caller";
\*         ret = -EINTR; break; }
OnCancel_keeps_ret ==
    /\ quit_reason' = AbortedByCaller
    /\ ret' = ret
    /\ Logged("cancel")
    /\ pc' = "bye"
    /\ UNCHANGED <<got_pause_cmd, dtls_ssl, new_dtls_ssl, ssl_fd,
                   new_dtls_started, retval>>
OnCancel ==
    /\ quit_reason' = AbortedByCaller
    /\ ret' = -EINTR
    /\ Logged("cancel")
    /\ pc' = "bye"
    /\ UNCHANGED <<got_pause_cmd, dtls_ssl, new_dtls_ssl, ssl_fd,
                   new_dtls_started, retval>>

\* if (vpninfo->got_pause_cmd) { openconnect_close_https(vpninfo, 0);
\*         dtls_close(vpninfo, 1); vpninfo->new_dtls_started = 0;
\*         vpninfo->got_pause_cmd = 0; return 0; }
OnPause_goes_on ==
    /\ ssl_fd' = -1
    /\ dtls_ssl' = FALSE
    /\ new_dtls_ssl' = FALSE
    /\ new_dtls_started' = 0
    /\ got_pause_cmd' = FALSE
    /\ Logged("pause")
    /\ pc' = IF did_work # 0 THEN "while" ELSE "select"
    /\ UNCHANGED <<quit_reason, ret, retval>>
OnPause ==
    /\ ssl_fd' = -1
    /\ dtls_ssl' = FALSE
    /\ new_dtls_ssl' = FALSE
    /\ new_dtls_started' = 0
    /\ got_pause_cmd' = FALSE
    /\ retval' = 0
    /\ Logged("pause")
    /\ pc' = "paused"
    /\ UNCHANGED <<quit_reason, ret>>

\* if (did_work) continue;
OnNoCommand ==
    /\ pc' = IF did_work # 0 THEN "while" ELSE "select"
    /\ UNCHANGED <<quit_reason, got_pause_cmd, ret, dtls_ssl, new_dtls_ssl,
                   ssl_fd, new_dtls_started, retval, log>>

\* The three ways on from the command poll.
CmdCheck_pause_first ==
    /\ pc = "cmd"
    /\ IF got_pause_cmd THEN OnPause
       ELSE IF got_cancel_cmd THEN OnCancel
       ELSE OnNoCommand
    /\ did_work' = InBody(pc', did_work)
    /\ timeout' = InBody(pc', timeout)
    /\ worked' = (worked /\ InBody(pc', 1) = 1)
    /\ UNCHANGED <<got_cancel_cmd, dtls_attempt_period,
                   reconnect, cmd_fd, select_rfds, select_nfds, byeCount,
                   byeReason, tunDownCount, lastDriverRet, selectTimeout,
                   clockVars, kaVars, qVars>>
CmdCheck ==
    /\ pc = "cmd"
    /\ IF got_cancel_cmd THEN OnCancel
       ELSE IF got_pause_cmd THEN OnPause
       ELSE OnNoCommand
    /\ did_work' = InBody(pc', did_work)
    /\ timeout' = InBody(pc', timeout)
    /\ worked' = (worked /\ InBody(pc', 1) = 1)
    /\ UNCHANGED <<got_cancel_cmd, dtls_attempt_period,
                   reconnect, cmd_fd, select_rfds, select_nfds, byeCount,
                   byeReason, tunDownCount, lastDriverRet, selectTimeout,
                   clockVars, kaVars, qVars>>

\* select(vpninfo->select_nfds, &rfds, &wfds, &efds, &tv) with tv the
\* timeout: returns when a descriptor is ready or the timeout has elapsed.
Select ==
    /\ pc = "select"
    /\ selectTimeout' = timeout
    /\ \E d \in 0 .. (MaxNow - now) :
           /\ d * 1000 <= timeout
           /\ now' = now + d
    /\ Logged("select")
    /\ pc' = "while"
    /\ did_work' = InBody(pc', did_work)
    /\ timeout' = InBody(pc', timeout)
    /\ worked' = FALSE
    /\ UNCHANGED <<quit_reason, got_cancel_cmd, got_pause_cmd, ret,
                   dtls_ssl, new_dtls_ssl, ssl_fd,
                   new_dtls_started, dtls_attempt_period, reconnect, cmd_fd,
                   select_rfds, select_nfds, retval, byeCount, byeReason,
                   tunDownCount, lastDriverRet, ka, kaVars, qVars>>

\* cstp_bye(vpninfo, vpninfo->quit_reason);
Bye ==
    /\ pc = "bye"
    /\ byeCount' = byeCount + 1
    /\ byeReason' = quit_reason
    /\ Logged("cstp_bye")
    /\ pc' = "shutdown"
    /\ UNCHANGED <<quit_reason, got_cancel_cmd, got_pause_cmd, ret,
                   did_work, timeout, dtls_ssl, new_dtls_ssl, ssl_fd,
                   new_dtls_started, dtls_attempt_period, reconnect, cmd_fd,
                   select_rfds, select_nfds, retval, tunDownCount,
                   lastDriverRet, worked, selectTimeout, clockVars, kaVars, qVars>>

\* shutdown_tun(vpninfo);
ShutdownTun_skipped ==
    /\ pc = "shutdown"
    /\ pc' = "return"
    /\ UNCHANGED <<quit_reason, got_cancel_cmd, got_pause_cmd, ret,
                   did_work, timeout, dtls_ssl, new_dtls_ssl, ssl_fd,
                   new_dtls_started, dtls_attempt_period, reconnect, cmd_fd,
                   select_rfds, select_nfds, retval, byeCount, byeReason,
                   tunDownCount, log, lastDriverRet, worked, selectTimeout,
                   clockVars, kaVars, qVars>>
ShutdownTun ==
    /\ pc = "shutdown"
    /\ tunDownCount' = tunDownCount + 1
    /\ Logged("shutdown_tun")
    /\ pc' = "return"
    /\ UNCHANGED <<quit_reason, got_cancel_cmd, got_pause_cmd, ret,
                   did_work, timeout, dtls_ssl, new_dtls_ssl, ssl_fd,
                   new_dtls_started, dtls_attempt_period, reconnect, cmd_fd,
                   select_rfds, select_nfds, retval, byeCount, byeReason,
                   lastDriverRet, worked, selectTimeout, clockVars, kaVars, qVars>>

\* return ret < 0 ? ret : -EIO;
Return ==
    /\ pc = "return"
    /\ retval' = ReturnCode(ret)
    /\ pc' = "stopped"
    /\ UNCHANGED <<quit_reason, got_cancel_cmd, got_pause_cmd, ret,
                   did_work, timeout, dtls_ssl, new_dtls_ssl, ssl_fd,
                   new_dtls_started, dtls_attempt_period, reconnect, cmd_fd,
                   select_rfds, select_nfds, log, byeCount, byeReason,
                   tunDownCount, lastDriverRet, worked, selectTimeout,
                   clockVars, kaVars, qVars>>

\* time(NULL) moves on by a second while the caller holds the session.
Tick ==
    /\ pc \in {"start", "paused", "stopped"}
    /\ now < MaxNow
    /\ now' = now + 1
    /\ UNCHANGED <<loopVars, ka, kaVars, qVars>>

Next ==
    \/ Call \/ LoopTest \/ TryHandshake \/ Attempt \/ DtlsDriver
    \/ CstpDriver \/ TunDriver \/ PollCmdFd \/ CmdCheck \/ Select
    \/ Bye \/ ShutdownTun \/ Return \/ Tick

Init ==
    /\ LoopAtRest
    /\ ssl_fd \in SslFds
    /\ dtls_attempt_period \in {0, 1}
    /\ cmd_fd \in CmdFds
    /\ now = 0
    /\ ka = KaAtStart(0, 0, 0)
    /\ SchedulerAtRest
    /\ QueueAtRest

Spec == Init /\ [][Next]_vars


-----------------------------------------------------------------------------
(* Claims about the session loop, checked under Spec.                      *)

Returned == pc \in {"paused", "stopped"}
InCall == ~(pc \in {"start", "paused", "stopped"})
LogEndsWith(a, b) ==
    /\ Len(log) >= 2
    /\ log[Len(log) - 1] = a
    /\ log[Len(log)] = b

\* C1 as stated: the loop returns 0 only on the pause path, and every
\* return on a STOPPED path (terminal cause set by a driver, or cancel) is
\* strictly negative: the last driver result stored in ret if that is
\* negative, otherwise -EIO.
C1_ReturnCodes ==
    /\ (Returned /\ retval = 0) => (pc = "paused" /\ InLog("pause"))
    /\ pc = "stopped" =>
           /\ retval < 0
           /\ retval = IF lastDriverRet < 0 THEN lastDriverRet ELSE -EIO

\* C1 as amended: the loop returns 0 only on the pause path, and every
\* return on a STOPPED path is strictly negative: -EINTR when the call
\* stopped on a cancel; otherwise the last driver result stored in ret if
\* that is negative, otherwise -EIO.
C1_ReturnCodesWithCancel ==
    /\ (Returned /\ retval = 0) => (pc = "paused" /\ InLog("pause"))
    /\ pc = "stopped" =>
           /\ retval < 0
           /\ retval = IF InLog("cancel") THEN -EINTR
                       ELSE IF lastDriverRet < 0 THEN lastDriverRet
                       ELSE -EIO

\* A call that stopped because the interface relay set the terminal cause
\* after the reliable transport had returned an error code: that code is
\* what the call returned.
C1_Witness ==
    /\ pc = "stopped"
    /\ LogEndsWith("cstp_bye", "shutdown_tun")
    /\ InLog("tun_mainloop")
    /\ ~InLog("cancel")
    /\ lastDriverRet = -EPERM
    /\ retval = -EPERM

\* What a call that stopped on a cancel did, and where the poll stands in
\* an iteration.
C2_CancelState ==
    /\ (pc = "stopped" /\ InLog("cancel")) =>
           /\ retval = -EINTR
           /\ quit_reason = AbortedByCaller
           /\ byeReason = AbortedByCaller
           /\ byeCount = 1
           /\ tunDownCount = 1
           /\ ~InLog("select")
    /\ pc = "select" => (~got_cancel_cmd /\ InLog("poll_cmd_fd"))
    /\ (pc = "while" /\ log # <<>>) => InLog("poll_cmd_fd")

\* The step taken with got_cancel_cmd set after the poll.
C2_CancelStep ==
    (pc = "cmd" /\ got_cancel_cmd) =>
        /\ pc' = "bye"
        /\ quit_reason' = AbortedByCaller
        /\ ret' = -EINTR

\* C2 (cancel): when got_cancel_cmd is set after the command poll of an
\* iteration in which no driver set a terminal cause, the loop, in that
\* iteration and without entering select(), sets quit_reason to "Aborted
\* by caller", calls cstp_bye and shutdown_tun and returns -EINTR; the
\* poll is made in every iteration that gets that far, also when drivers
\* did work, so select() is never entered with a cancel pending.
C2_Cancel == [](C2_CancelState) /\ [][C2_CancelStep]_vars

\* A call that returned -EINTR from an iteration in which the reliable
\* transport had reported work.
C2_Witness ==
    /\ pc = "stopped"
    /\ InLog("cancel")
    /\ lastDriverRet = 1
    /\ retval = -EINTR
    /\ got_pause_cmd

\* The session after a call has returned on a pause.
C3_PauseState ==
    pc = "paused" =>
        /\ retval = 0
        /\ quit_reason = NULLSTR
        /\ ~got_pause_cmd
        /\ ssl_fd = -1
        /\ ~dtls_ssl
        /\ ~new_dtls_ssl
        /\ new_dtls_started = 0
        /\ byeCount = 0
        /\ tunDownCount = 0

\* The step taken with only got_pause_cmd set after the poll, and the
\* start of the next call.
C3_PauseStep ==
    /\ (pc = "cmd" /\ got_pause_cmd /\ ~got_cancel_cmd) =>
           /\ pc' = "paused"
           /\ ka' = ka
           /\ quit_reason' = NULLSTR
           /\ byeCount' = 0
           /\ tunDownCount' = 0
    /\ (pc = "paused" /\ pc' = "while") => quit_reason' = NULLSTR
    /\ (pc = "while" /\ quit_reason = NULLSTR) => pc' = "handshake"

\* C3 (pause): when got_pause_cmd and not got_cancel_cmd is set after the
\* command poll, the loop closes the reliable transport, tears down the
\* unreliable one, zeroes new_dtls_started, clears got_pause_cmd and
\* returns 0, with no cstp_bye, no shutdown_tun, quit_reason still NULL
\* and the Keepalive State as it was; the next call enters the loop body.
C3_Pause == [](C3_PauseState) /\ [][C3_PauseStep]_vars

\* A pause that ended an iteration in which the unreliable transport's
\* driver ran and after the reliable transport's driver had stamped a
\* rekey: the stamp is still there when the call has returned.
C3_Witness ==
    /\ pc = "paused"
    /\ InLog("dtls_mainloop")
    /\ ka.last_rekey > 0
    /\ retval = 0

\* C4 (termination sequence): on every exit through a STOPPED variant,
\* cstp_bye is called exactly once, with the terminal cause, then
\* shutdown_tun exactly once, both before the return; no driver and no
\* select() runs after cstp_bye.
C4_TerminationSequence ==
    /\ pc = "stopped" =>
           /\ byeCount = 1
           /\ tunDownCount = 1
           /\ quit_reason # NULLSTR
           /\ byeReason = quit_reason
           /\ LogEndsWith("cstp_bye", "shutdown_tun")
    /\ pc = "return" => (byeCount = 1 /\ tunDownCount = 1)
    /\ pc = "shutdown" => (byeCount = 1 /\ tunDownCount = 0)
    /\ (InCall /\ ~(pc \in {"shutdown", "return"})) =>
           (byeCount = 0 /\ tunDownCount = 0)
    /\ \A i, j \in 1 .. Len(log) :
           (i < j /\ log[i] = "cstp_bye") => log[j] = "shutdown_tun"

\* A call stopped by a terminal cause that the interface relay's driver
\* set.
C4_Witness ==
    /\ pc = "stopped"
    /\ byeReason = "remote-terminated"
    /\ log = <<"cstp_mainloop", "tun_mainloop", "cstp_bye", "shutdown_tun">>


-----------------------------------------------------------------------------
(* Further claims about the packet queue, checked under SpecQ.             *)

\* What a queue_new_packet call does to the queue and what it returns.
C11_Step ==
    LET before == QueueIds(heap, qhead)
        after == QueueIds(heap', qhead')
    IN  /\ qop' = "queue_new_packet failed" =>
               /\ qret' = -ENOMEM
               /\ heap' = heap
               /\ qhead' = qhead
               /\ after = before
        /\ qop' = "queue_new_packet" =>
               /\ qret' = 0
               /\ Len(after) = Len(before) + 1
               /\ SubSeq(after, 1, Len(before)) = before
               /\ \A i \in 1 .. Len(before) :
                      /\ heap'[before[i]].len = heap[before[i]].len
                      /\ heap'[before[i]].data = heap[before[i]].data
               /\ LET new == after[Len(after)]
                      given == expected'[Len(expected')]
                  IN  /\ ~heap[new].alloc
                      /\ heap'[new].len = given[1]
                      /\ heap'[new].data = given[2]
                      /\ Len(heap'[new].data) = given[1]
                      /\ heap'[new].next = 0

\* C11 (enqueue_new failure): when malloc fails, queue_new_packet returns
\* -ENOMEM and the queue is exactly as before the call; when it succeeds
\* it returns 0 and the queue has exactly one more packet, at the tail,
\* holding a copy of the given len bytes.
C11_EnqueueNew == [][C11_Step]_vars

\* A failed queue_new_packet on a queue of two packets.
C11_Witness ==
    /\ qop = "queue_new_packet failed"
    /\ qret = -ENOMEM
    /\ Len(QueueIds(heap, qhead)) = 2
    /\ QueueIds(heap, qhead) = qPrev


-----------------------------------------------------------------------------
(* Further claims about openconnect_mainloop, checked under Spec.          *)

\* Positions of the current iteration after the named driver has returned.
AfterDtlsDriver == pc = "cstp" /\ InLog("dtls_mainloop")
AfterCstpDriver ==
    \/ pc \in {"tun", "poll", "cmd", "select"}
    \/ pc = "while" /\ InLog("cstp_mainloop")

\* C12 (driver error propagation): when dtls_mainloop or cstp_mainloop
\* returns a negative code in an iteration, the loop leaves that iteration
\* for the termination path, whether or not the driver set quit_reason: it
\* does not go on to the next driver, the command poll, select() or the
\* next iteration, and the call returns a negative code.
C12_DriverErrorStops ==
    /\ (AfterDtlsDriver \/ AfterCstpDriver) => lastDriverRet >= 0
    /\ (pc = "stopped" /\ lastDriverRet < 0) => retval < 0

\* Positions inside the loop body, and the steps an iteration logs there.
InLoopBody ==
    pc \in {"handshake", "attempt", "dtls", "cstp", "tun", "poll", "cmd",
            "select"}
BodySteps ==
    {"dtls_try_handshake", "connect_dtls_socket", "dtls_mainloop",
     "cstp_mainloop", "tun_mainloop", "poll_cmd_fd", "cancel", "pause",
     "select"}
RanBody == \E i \in 1 .. Len(log) : log[i] \in BodySteps

C13_State ==
    /\ InLoopBody => quit_reason = NULLSTR
    /\ pc = "paused" =>
           /\ quit_reason = NULLSTR
           /\ retval = 0
           /\ InLog("poll_cmd_fd")
           /\ InLog("pause")
    /\ pc = "stopped" => (quit_reason # NULLSTR /\ retval < 0)
    /\ (pc = "stopped" /\ ~RanBody) =>
           (log = <<"cstp_bye", "shutdown_tun">> /\ retval = -EIO)

C13_Step ==
    /\ quit_reason # NULLSTR => quit_reason' = quit_reason
    /\ (quit_reason = NULLSTR /\ quit_reason' # NULLSTR) =>
           (pc \in {"dtls", "cstp", "tun", "cmd"} /\ pc' = "bye")
    /\ (pc # "paused" /\ pc' = "paused") =>
           (pc = "cmd" /\ quit_reason = NULLSTR)
    /\ (pc = "while" /\ quit_reason # NULLSTR) =>
           (pc' = "bye" /\ log' = <<>>)
    /\ (pc \in {"bye", "shutdown", "return"} /\ pc' # pc) =>
           pc' \in {"shutdown", "return", "stopped"}

\* C13 (session state machine): quit_reason becomes non-NULL, and a call
\* returns 0, only out of a running iteration; the loop never clears or
\* replaces a quit_reason that is set; a call entered with quit_reason set
\* runs no driver, no poll_cmd_fd and no select(), only cstp_bye and
\* shutdown_tun, and returns -EIO, never 0, also with got_pause_cmd set; a
\* return of 0 comes only from an iteration that started with quit_reason
\* NULL and in which no driver set it.
C13_StateMachine == [](C13_State) /\ [][C13_Step]_vars

\* A call entered after a cancel, with the pause flag still set, has gone
\* straight to the termination path.
C13_Witness ==
    /\ pc = "stopped"
    /\ ~RanBody
    /\ got_pause_cmd
    /\ quit_reason = AbortedByCaller
    /\ retval = -EIO

\* The place of a step in the fixed order of an iteration (0: not one of
\* the four).
C14_Rank(step) ==
    CASE step = "dtls_mainloop" -> 1
      [] step = "cstp_mainloop" -> 2
      [] step = "tun_mainloop" -> 3
      [] step = "poll_cmd_fd" -> 4
      [] OTHER -> 0

C14_Ranks == SelectSeq([i \in 1 .. Len(log) |-> C14_Rank(log[i])],
                       LAMBDA r : r # 0)

C14_State ==
    /\ \A i \in 1 .. Len(C14_Ranks) : \A j \in 1 .. Len(C14_Ranks) :
           i < j => C14_Ranks[i] < C14_Ranks[j]
    /\ InLog("tun_mainloop") => InLog("cstp_mainloop")
    /\ InLog("poll_cmd_fd") => InLog("tun_mainloop")
    /\ pc \in {"tun", "poll", "cmd", "select"} => InLog("cstp_mainloop")
    /\ pc \in {"poll", "cmd", "select"} => InLog("tun_mainloop")
    /\ pc \in {"cmd", "select"} => InLog("poll_cmd_fd")

C14_Step ==
    /\ (pc = "dtls" /\ pc' # pc) =>
           (dtls_ssl <=> log' = Append(log, "dtls_mainloop"))
    /\ (log' # <<>> /\ log' # log /\ C14_Rank(log'[Len(log')]) # 0) =>
           quit_reason = NULLSTR
    /\ (pc \in {"dtls", "cstp", "tun"} /\ quit_reason' # NULLSTR) =>
           pc' = "bye"
    /\ (quit_reason # NULLSTR /\ log' # log) =>
           \/ log' = <<>>
           \/ log' = Append(log, "cstp_bye")
           \/ log' = Append(log, "shutdown_tun")

\* C14 (fixed driver order): in every iteration the steps are dtls_mainloop
\* (exactly when dtls_ssl is set), then cstp_mainloop, then tun_mainloop,
\* then poll_cmd_fd, each at most once; and once a step has set
\* quit_reason, no later driver and no poll of that iteration runs.
C14_FixedOrder == [](C14_State) /\ [][C14_Step]_vars

\* An iteration that ran all four, in order.
C14_Witness ==
    /\ pc = "cmd"
    /\ C14_Ranks = <<1, 2, 3, 4>>

\* The end of an iteration with no terminal cause, no cancel and no pause.
C15_AtEnd == pc = "cmd" /\ ~got_cancel_cmd /\ ~got_pause_cmd

C15_State ==
    /\ pc = "handshake" => (timeout = INT_MAX /\ did_work = 0)
    /\ pc = "select" => ~worked

C15_Step ==
    /\ (C15_AtEnd /\ worked) => pc' = "while"
    /\ (C15_AtEnd /\ ~worked) => pc' = "select"
    /\ pc = "select" =>
           (selectTimeout' = timeout /\ (now' - now) * 1000 <= timeout)

\* C15 (work suppresses blocking): at the end of an iteration with no
\* terminal cause, cancel or pause, the loop goes straight to the next
\* iteration if a driver returned a positive work count in it, and calls
\* select() exactly when none did; select() waits at most the iteration's
\* timeout, which starts at INT_MAX in every iteration.
C15_WorkSuppressesBlocking == [](C15_State) /\ [][C15_Step]_vars

\* Step a was logged before step b in the current iteration.
C16_Before(a, b) ==
    \E i \in 1 .. Len(log) : \E j \in 1 .. Len(log) :
        i < j /\ log[i] = a /\ log[j] = b

\* A handshake was initiated in the current iteration, and the iteration is
\* past both handshake steps.
C16_Initiated ==
    /\ pc \in {"dtls", "cstp", "tun", "poll", "cmd", "select"}
    /\ InLog("connect_dtls_socket")

C16_State ==
    /\ ~C16_Before("connect_dtls_socket", "dtls_try_handshake")
    /\ ~C16_Before("connect_dtls_socket", "connect_dtls_socket")
    /\ ~C16_Before("dtls_try_handshake", "dtls_try_handshake")
    /\ (C16_Initiated /\ InLog("dtls_try_handshake")) =>
           log[1] = "dtls_try_handshake"

C16_Step ==
    /\ (pc = "handshake" /\ pc' # pc) =>
           (new_dtls_ssl <=> log' = Append(log, "dtls_try_handshake"))
    /\ (pc = "attempt" /\ pc' # pc) =>
           ((/\ dtls_attempt_period # 0
             /\ ~dtls_ssl
             /\ ~new_dtls_ssl
             /\ new_dtls_started + dtls_attempt_period < now
             /\ ssl_fd # -1)
            <=> log' = Append(log, "connect_dtls_socket"))
    /\ pc # "attempt" => log' # Append(log, "connect_dtls_socket")
    /\ pc # "handshake" => log' # Append(log, "dtls_try_handshake")
    /\ (pc = "while" /\ pc' = "handshake") => log' = <<>>

C20_Flags == <<got_cancel_cmd, got_pause_cmd>>
C20_PauseTargets == <<ssl_fd, dtls_ssl, new_dtls_ssl, new_dtls_started>>

C20_State ==
    /\ (pc \in {"bye", "shutdown", "return", "stopped"}
        /\ RanBody /\ ~InLog("cancel")) =>
           (~InLog("poll_cmd_fd") /\ ~InLog("pause"))
    /\ (pc = "stopped" /\ RanBody /\ ~InLog("cancel")) =>
           /\ retval = (IF lastDriverRet < 0 THEN lastDriverRet ELSE -EIO)
           /\ retval # 0
           /\ quit_reason \in DriverReasons
    /\ (pc = "stopped" /\ InLog("cancel")) =>
           /\ retval = -EINTR
           /\ quit_reason = AbortedByCaller
           /\ ~InLog("pause")
           /\ byeCount = 1
           /\ tunDownCount = 1

C20_Step ==
    /\ (pc \in {"dtls", "cstp", "tun"} /\ quit_reason' # NULLSTR) =>
           (pc' = "bye" /\ C20_Flags' = C20_Flags)
    /\ pc \in {"bye", "shutdown", "return"} => C20_Flags' = C20_Flags
    /\ (pc = "cmd" /\ got_cancel_cmd) =>
           /\ pc' = "bye"
           /\ ret' = -EINTR
           /\ quit_reason' = AbortedByCaller
           /\ C20_Flags' = C20_Flags
           /\ C20_PauseTargets' = C20_PauseTargets

\* C20 (exit precedence): a quit_reason set by a driver wins over cancel
\* and pause: poll_cmd_fd is not called, the call returns the driver's
\* negative code or -EIO, not cancel's -EINTR or 0, and the command flags
\* stay as they were. With got_cancel_cmd and got_pause_cmd both set after the
\* poll, cancel wins: the call returns -EINTR through cstp_bye and
\* shutdown_tun, never 0, got_pause_cmd stays set, and the transports and
\* new_dtls_started are left alone.
C20_ExitPrecedence == [](C20_State) /\ [][C20_Step]_vars

\* A cancel that arrived together with a pause, on a connected session.
C20_Witness ==
    /\ pc = "stopped"
    /\ InLog("cancel")
    /\ got_pause_cmd
    /\ got_cancel_cmd
    /\ ssl_fd # -1
    /\ retval = -EINTR

=============================================================================
